---- MODULE Spec2Model ----
(***************************************************************************)
(* Plane-Alert Discord notifier: send-discord-alert.py and the pflib       *)
(* helpers it calls.                                                       *)
(*                                                                         *)
(* A string is a sequence of pieces.  A piece taken from an input file is  *)
(* one character; a literal of the program text (an f-string's fixed part) *)
(* is one piece.  The empty string is <<>>.  A csv row is a sequence of    *)
(* strings, a blank line is the empty row <<>>.  A dict is a function from *)
(* key names to values; the empty dict has the empty domain.               *)
(***************************************************************************)
EXTENDS Integers, Sequences, FiniteSets, TLC

VARIABLES
    pc,         \* position of main(), or of the function under study
    exc,        \* the exception that ended the run, "none" while there is none
    env,        \* the process environment: argc, feedExists, DISCORD_FEEDER_NAME
    feed,       \* the rows csv.reader yields for the alert feed file
    planefile,  \* the rows csv.reader yields for the PLANEFILE
    pflib,      \* which copy of pflib is under study
    config,     \* the dict load_config returns
    planedb,    \* pflib's global planedb
    alerts,     \* the list load_alerts returns
    idx,        \* 1-based position of process_alerts' for loop
    handed,     \* the calls of pf.send so far: the embed and how the call ended
    icaoArg,    \* flightaware_link / get_plane_info argument
    tailArg,    \* flightaware_link argument
    result      \* value returned by the function under study

vars == <<pc, exc, env, feed, planefile, pflib, config, planedb, alerts, idx,
          handed, icaoArg, tailArg, result>>

----------------------------------------------------------------------------
(* Bounds *)

MaxAlerts == 2
MaxPlaneRows == 1
MaxRefRows == 2
MaxIdLen == 3

----------------------------------------------------------------------------
(* Strings *)

Empty == <<>>
EmptyDict == [k \in {} |-> <<>>]
Whitespace == {" "}
NL == "\n"

SetMin(S) == CHOOSE x \in S : \A y \in S : x <= y
SetMax(S) == CHOOSE x \in S : \A y \in S : x >= y

SeqsUpTo(S, n) == UNION {[1..k -> S] : k \in 0..n}

\* str.strip(): leading and trailing whitespace removed
strip(s) ==
    LET keep == {i \in 1..Len(s) : s[i] \notin Whitespace}
    IN  IF keep = {} THEN Empty ELSE SubSeq(s, SetMin(keep), SetMax(keep))

\* str.replace(old, ""): every occurrence of the character removed
replace(s, old) == SelectSeq(s, LAMBDA c : c # old)

\* str.startswith(prefix) for a one-character prefix
startswith(s, prefix) == Len(s) > 0 /\ s[1] = prefix

\* dict.get(key, "")
Get(d, key) == IF key \in DOMAIN d THEN d[key] ELSE Empty

----------------------------------------------------------------------------
(* pflib (dist-packages copy) *)

flightaware_link(icao, tail_num) ==
    LET icao1 == strip(icao)
        icao2 == replace(icao1, "[")
        icao3 == replace(icao2, "]")
        tail1 == strip(tail_num)
        tail2 == replace(tail1, "[")
        tail3 == replace(tail2, "]")
    IN  <<"https://flightaware.com/live/modes/">> \o icao3 \o <<"/ident/">>
            \o tail3 \o <<"/redirect">>

\* the python3.7 copy: no clean-up, and a literal "]" after the tail number
flightaware_link_py37(icao, tail_num) ==
    <<"https://flightaware.com/live/modes/">> \o icao \o <<"/ident/">>
        \o tail_num \o <<"]", "/redirect">>

EmergencyCodes == { <<"7","7","0","0">>, <<"7","6","0","0">>, <<"7","5","0","0">> }

\* the code compared after squawk.strip()
is_emergency_stripped(squawk) == strip(squawk) \in EmergencyCodes

is_emergency(squawk) == squawk \in EmergencyCodes

\* the first row of an icao is kept
store_first(db, key, plane) ==
    [k \in DOMAIN db \cup {key} |-> IF k \in DOMAIN db THEN db[k] ELSE plane]

\* planedb[plane["icao"]] = plane
store(db, key, plane) ==
    [k \in DOMAIN db \cup {key} |-> IF k = key THEN plane ELSE db[k]]

\* the dict load_planefile builds from a row of at least 4 columns
plane_of_row(row) ==
    [icao      |-> row[1],
     tail_num  |-> row[2],
     owner     |-> row[3],
     type      |-> row[4],
     icao_type |-> IF Len(row) > 4 THEN row[5] ELSE Empty,
     authority |-> IF Len(row) > 5 THEN row[6] ELSE Empty,
     tag1      |-> IF Len(row) > 6 THEN row[7] ELSE Empty,
     tag2      |-> IF Len(row) > 7 THEN row[8] ELSE Empty,
     tag3      |-> IF Len(row) > 8 THEN row[9] ELSE Empty,
     category  |-> IF Len(row) > 9 THEN row[10] ELSE Empty,
     link      |-> IF Len(row) > 10 THEN row[11] ELSE Empty]

\* The for loop of load_planefile from row i on.  row[0] is evaluated before
\* `not row`, so a blank line raises IndexError; so does a row without
\* columns 1..3.  planedb keeps what was stored before the exception.
RECURSIVE load_planefile_from(_, _, _)
load_planefile_from(rows, i, db) ==
    IF i > Len(rows) THEN [exc |-> "none", planedb |-> db]
    ELSE LET row == rows[i] IN
         IF Len(row) = 0 THEN [exc |-> "IndexError", planedb |-> db]
         ELSE IF startswith(row[1], "#") THEN load_planefile_from(rows, i + 1, db)
         ELSE IF Len(row) < 4 THEN [exc |-> "IndexError", planedb |-> db]
         ELSE load_planefile_from(rows, i + 1, store(db, row[1], plane_of_row(row)))

load_planefile(rows) == load_planefile_from(rows, 1, EmptyDict)

\* the python3.7 copy reads row[4]..row[9] without a length test
RECURSIVE load_planefile_py37_from(_, _, _)
load_planefile_py37_from(rows, i, db) ==
    IF i > Len(rows) THEN [exc |-> "none", planedb |-> db]
    ELSE LET row == rows[i] IN
         IF Len(row) = 0 THEN [exc |-> "IndexError", planedb |-> db]
         ELSE IF startswith(row[1], "#")
              THEN load_planefile_py37_from(rows, i + 1, db)
         ELSE IF Len(row) < 10 THEN [exc |-> "IndexError", planedb |-> db]
         ELSE load_planefile_py37_from(rows, i + 1,
                                       store(db, row[1], plane_of_row(row)))

load_planefile_py37(rows) == load_planefile_py37_from(rows, 1, EmptyDict)

get_plane_info(icao) == IF icao \in DOMAIN planedb THEN planedb[icao] ELSE EmptyDict

\* pf.send: webhook.execute() returns (the post was accepted, or was answered
\* with an error status that the webhook library logs) or raises
SendOutcomes == {"delivered", "rejected", "raised"}

----------------------------------------------------------------------------
(* pflib.embed *)

build(title, description, color) ==
    [title |-> title, description |-> description, color |-> color, fields |-> <<>>]

field(embed, name, value) ==
    [embed EXCEPT !.fields = Append(@, [name |-> name, value |-> value])]

----------------------------------------------------------------------------
(* send-discord-alert.py *)

\* the length test written as len(row) <= 10
skip_row_off_by_one(row) == Len(row) <= 10 \/ startswith(row[1], "#")

\* if len(row) < 10 or row[0].startswith("#"): continue
skip_row(row) == Len(row) < 10 \/ startswith(row[1], "#")

alert_of_row(row) ==
    [icao       |-> strip(row[1]),
     tail_num   |-> strip(row[2]),
     owner      |-> strip(row[3]),
     plane_desc |-> row[4],
     date       |-> row[5],
     time       |-> row[6],
     lat        |-> row[7],
     long       |-> row[8],
     callsign   |-> strip(row[9]),
     adsbx_url  |-> row[10],
     squawk     |-> IF Len(row) > 10 THEN row[11] ELSE Empty]

RECURSIVE read_alerts(_, _, _)
read_alerts(rows, i, acc) ==
    IF i > Len(rows) THEN acc
    ELSE IF skip_row(rows[i]) THEN read_alerts(rows, i + 1, acc)
    ELSE read_alerts(rows, i + 1, Append(acc, alert_of_row(rows[i])))

\* a feed that cannot be opened read as an empty feed
load_alerts_swallowing(exists, rows) ==
    [exc |-> "none", alerts |-> IF exists THEN read_alerts(rows, 1, <<>>) ELSE <<>>]

\* open() raises when the file cannot be opened; nothing catches it
load_alerts(exists, rows) ==
    IF ~exists THEN [exc |-> "FileNotFoundError", alerts |-> <<>>]
    ELSE [exc |-> "none", alerts |-> read_alerts(rows, 1, <<>>)]

Amber == 15918872
Red == 16711680

alert_title(plane) ==
    LET squawk == Get(plane, "squawk") IN
    IF is_emergency(squawk)
    THEN <<"Air Emergency! ">> \o plane.tail_num \o <<" squawked ">> \o squawk
    ELSE <<"Plane Alert - ">> \o plane.plane_desc

alert_color(plane) == IF is_emergency(Get(plane, "squawk")) THEN Red ELSE Amber

alert_description(plane) ==
    LET description == IF Get(plane, "owner") # Empty
                       THEN <<"Operated by **">> \o Get(plane, "owner") \o <<"**">>
                       ELSE Empty
    IN  description \o <<NL, "[Track on ADS-B Exchange](">> \o plane.adsbx_url \o <<")">>

\* the fields taken from the planedb entry, with Tag 2 tested and attached
\* before Tag 1
attach_db_fields_swapped(embed, dbinfo) ==
    LET e5 == IF Get(dbinfo, "category") # Empty
              THEN field(embed, "Category", dbinfo.category) ELSE embed
        e6 == IF Get(dbinfo, "tag2") # Empty THEN field(e5, "Tag", dbinfo.tag2) ELSE e5
        e7 == IF Get(dbinfo, "tag1") # Empty THEN field(e6, "Tag", dbinfo.tag1) ELSE e6
        e8 == IF Get(dbinfo, "tag3") # Empty THEN field(e7, "Tag", dbinfo.tag3) ELSE e7
    IN  IF Get(dbinfo, "link") # Empty
        THEN field(e8, "Link", <<"[Learn More](">> \o dbinfo.link \o <<")">>)
        ELSE e8

\* the fields process_alerts takes from the planedb entry
attach_db_fields(embed, dbinfo) ==
    LET e5 == IF Get(dbinfo, "category") # Empty
              THEN field(embed, "Category", dbinfo.category) ELSE embed
        e6 == IF Get(dbinfo, "tag1") # Empty THEN field(e5, "Tag", dbinfo.tag1) ELSE e5
        e7 == IF Get(dbinfo, "tag2") # Empty THEN field(e6, "Tag", dbinfo.tag2) ELSE e6
        e8 == IF Get(dbinfo, "tag3") # Empty THEN field(e7, "Tag", dbinfo.tag3) ELSE e7
    IN  IF Get(dbinfo, "link") # Empty
        THEN field(e8, "Link", <<"[Learn More](">> \o dbinfo.link \o <<")">>)
        ELSE e8

\* the body of process_alerts' loop up to the call of pf.send
alert_embed(cfg, plane) ==
    LET dbinfo  == get_plane_info(plane.icao)
        fa_link == flightaware_link(plane.icao, plane.tail_num)
        e0 == build(alert_title(plane), alert_description(plane), alert_color(plane))
        e1 == IF Get(cfg, "DISCORD_FEEDER_NAME") # Empty
              THEN field(e0, "Feeder", cfg.DISCORD_FEEDER_NAME) ELSE e0
        e2 == field(e1, "ICAO", plane.icao)
        e3 == field(e2, "Tail Number",
                    <<"[">> \o plane.tail_num \o <<"](">> \o fa_link \o <<")">>)
        e4 == IF Get(plane, "callsign") # Empty
              THEN field(e3, "Callsign", plane.callsign) ELSE e3
    IN  attach_db_fields(e4, dbinfo)

\* the loop leaves out every second alert
next_plane_skipping(i) == i + 2

\* for plane in alerts: the position after one iteration
next_plane(i) == i + 1

----------------------------------------------------------------------------
(* Inputs *)

AlertRow(icao, tail, owner, desc, callsign, squawk) ==
    <<icao, tail, owner, desc, <<"2022-01-01">>, <<"12:00:00">>, <<"10.0">>,
      <<"-70.0">>, callsign, <<"https://adsbexchange.com/x">>, squawk>>

RowA == AlertRow(<<"A">>, <<"N", "1">>, <<"NASA">>, <<"Orion">>, <<"CS">>,
                 <<"7","7","0","0">>)
RowB == AlertRow(<<" ", "B">>, <<"N", "2">>, Empty, <<"Learjet">>, Empty, Empty)

\* an emergency row of 11 columns, a row of exactly 10 columns, a short row,
\* a comment row and a blank line
SmallAlertRows ==
    { RowA, SubSeq(RowB, 1, 10), SubSeq(RowA, 1, 9),
      [RowB EXCEPT ![1] = <<"#", "B">>], <<>> }

Squawks ==
    EmergencyCodes \cup
    { Empty, <<"1","2","0","0">>, <<"7","7","0","0"," ">>, <<"0","7","7","0","0">>,
      <<"7","7","0">>, <<"7","7","7","7">> }

RichAlertRows ==
    LET full == { AlertRow(i, t, o, <<"Orion">>, c, s) :
                    i \in { <<"A">>, <<" ">>, <<"[", " ", "A", "]">> },
                    t \in { Empty, <<"N", "1">> },
                    o \in { Empty, <<" ">>, <<"NASA">> },
                    c \in { Empty, <<"CS">> },
                    s \in Squawks }
    IN  full \cup { SubSeq(r, 1, 10) : r \in full }

PlaneRow(icao, tail, tag1, tag2, tag3, category, link) ==
    <<icao, tail, <<"NASA">>, <<"Lockheed P-3B Orion">>, <<"P3">>, <<"Gov">>,
      tag1, tag2, tag3, category, link>>

RefA == PlaneRow(<<"A">>, <<"N", "1">>, <<"Sce To Aux">>, <<"Airborne Science">>,
                 <<"Wallops">>, <<"Distinctive">>, <<"https://nasa.gov">>)
RefA2 == PlaneRow(<<"A">>, <<"N", "9">>, Empty, <<"Other">>, Empty, Empty, Empty)
RefB == PlaneRow(<<"B">>, <<"N", "2">>, <<"Tag">>, Empty, Empty, <<"Cat">>, Empty)

SmallPlaneRows == { RefA, [RefA EXCEPT ![1] = <<"#", "A">>], <<>> }

RichPlaneRows ==
    LET full == { PlaneRow(<<"A">>, <<"N", "1">>, t1, t2, t3, c, l) :
                    t1 \in { Empty, <<"T1">> }, t2 \in { Empty, <<"T2">> },
                    t3 \in { Empty, <<"T3">> }, c \in { Empty, <<"Cat">> },
                    l \in { Empty, <<"https://nasa.gov">> } }
    IN  full \cup { SubSeq(RefA, 1, 4), SubSeq(RefA, 1, 8), RefB }

\* rows of every length from the blank line to one column more than is read
RefRows ==
    { SubSeq(r, 1, n) : r \in { RefA, RefA2, RefB }, n \in { 0, 1, 3, 4, 9, 10, 11 } }
        \cup { [RefA EXCEPT ![1] = <<"#", "A">>], <<<<"#">>>>, RefB \o <<<<"extra">>>> }

LookupKeys == { <<"A">>, <<"B">>, <<"C">>, Empty }

IdChars == { "A", " ", "[", "]" }

FeederNames == { Empty, <<"Feeder">> }

Envs == [argc : 1..3, feedExists : BOOLEAN, DISCORD_FEEDER_NAME : FeederNames]

----------------------------------------------------------------------------
(* main() of send-discord-alert.py *)

Init ==
    /\ pc = "load_config"
    /\ exc = "none"
    /\ pflib = "dist-packages"
    /\ \/ /\ feed \in SeqsUpTo(SmallAlertRows, MaxAlerts)
          /\ planefile \in SeqsUpTo(SmallPlaneRows, MaxPlaneRows)
          /\ env \in Envs
          /\ env.feedExists \/ feed = <<>>    \* a missing file has no rows
       \/ /\ feed \in { <<r>> : r \in RichAlertRows }
          /\ planefile \in { <<r>> : r \in RichPlaneRows }
          /\ env \in { e \in Envs : e.argc = 2 /\ e.feedExists }
    /\ config = EmptyDict
    /\ planedb = EmptyDict
    /\ alerts = <<>>
    /\ idx = 0
    /\ handed = <<>>
    /\ icaoArg = Empty
    /\ tailArg = Empty
    /\ result = Empty

\* pf.init_log; config = pf.load_config(), which ends with load_planefile
main_load_config ==
    /\ pc = "load_config"
    /\ LET r == load_planefile(planefile) IN
       /\ planedb' = r.planedb
       /\ IF r.exc = "none"
          THEN /\ config' = [DISCORD_FEEDER_NAME |-> env.DISCORD_FEEDER_NAME]
               /\ pc' = "check_argv"
               /\ exc' = exc
          ELSE /\ config' = config
               /\ pc' = "raised"
               /\ exc' = r.exc
    /\ UNCHANGED <<env, feed, planefile, pflib, alerts, idx, handed, icaoArg,
                   tailArg, result>>

\* if len(sys.argv) != 2: print usage; sys.exit(1)
main_check_argv ==
    /\ pc = "check_argv"
    /\ pc' = IF env.argc # 2 THEN "exit_1" ELSE "load_alerts"
    /\ UNCHANGED <<exc, env, feed, planefile, pflib, config, planedb, alerts, idx,
                   handed, icaoArg, tailArg, result>>

\* alerts = load_alerts(input_file)
main_load_alerts ==
    /\ pc = "load_alerts"
    /\ LET r == load_alerts(env.feedExists, feed) IN
       IF r.exc = "none"
       THEN /\ alerts' = r.alerts
            /\ idx' = 1
            /\ pc' = "process_alerts"
            /\ exc' = exc
       ELSE /\ pc' = "raised"
            /\ exc' = r.exc
            /\ UNCHANGED <<alerts, idx>>
    /\ UNCHANGED <<env, feed, planefile, pflib, config, planedb, handed, icaoArg,
                   tailArg, result>>

\* one iteration of process_alerts' loop: the embed is built and handed to
\* pf.send; an exception of pf.send is caught nowhere and ends the run
process_alerts ==
    /\ pc = "process_alerts"
    /\ idx <= Len(alerts)
    /\ \E outcome \in SendOutcomes :
        /\ handed' = Append(handed, [embed   |-> alert_embed(config, alerts[idx]),
                                     outcome |-> outcome])
        /\ IF outcome = "raised"
           THEN /\ pc' = "raised"
                /\ exc' = "SendError"
                /\ idx' = idx
           ELSE /\ idx' = next_plane(idx)
                /\ UNCHANGED <<pc, exc>>
    /\ UNCHANGED <<env, feed, planefile, pflib, config, planedb, alerts, icaoArg,
                   tailArg, result>>

\* the loop is over: pf.log("Done sending alerts to Discord")
main_done ==
    /\ pc = "process_alerts"
    /\ idx > Len(alerts)
    /\ pc' = "done"
    /\ UNCHANGED <<exc, env, feed, planefile, pflib, config, planedb, alerts, idx,
                   handed, icaoArg, tailArg, result>>

Next ==
    \/ main_load_config
    \/ main_check_argv
    \/ main_load_alerts
    \/ process_alerts
    \/ main_done

Spec == Init /\ [][Next]_vars

----------------------------------------------------------------------------
(* load_planefile and get_plane_info on their own, both copies of pflib *)

InitPlanefile ==
    /\ pc = "load_planefile"
    /\ exc = "none"
    /\ pflib \in {"dist-packages", "python3.7"}
    /\ planefile \in SeqsUpTo(RefRows, MaxRefRows)
    /\ env = [argc |-> 2, feedExists |-> TRUE, DISCORD_FEEDER_NAME |-> Empty]
    /\ feed = <<>>
    /\ config = EmptyDict
    /\ planedb = EmptyDict
    /\ alerts = <<>>
    /\ idx = 0
    /\ handed = <<>>
    /\ icaoArg = Empty
    /\ tailArg = Empty
    /\ result = EmptyDict

call_load_planefile ==
    /\ pc = "load_planefile"
    /\ LET r == IF pflib = "python3.7" THEN load_planefile_py37(planefile)
                ELSE load_planefile(planefile)
       IN  /\ planedb' = r.planedb
           /\ exc' = r.exc
           /\ pc' = IF r.exc = "none" THEN "loaded" ELSE "raised"
    /\ UNCHANGED <<env, feed, planefile, pflib, config, alerts, idx, handed, icaoArg,
                   tailArg, result>>

call_get_plane_info ==
    /\ pc = "loaded"
    /\ \E icao \in LookupKeys :
        /\ icaoArg' = icao
        /\ result' = get_plane_info(icao)
    /\ pc' = "looked_up"
    /\ UNCHANGED <<exc, env, feed, planefile, pflib, config, planedb, alerts, idx,
                   handed, tailArg>>

NextPlanefile == call_load_planefile \/ call_get_plane_info

SpecPlanefile == InitPlanefile /\ [][NextPlanefile]_vars

----------------------------------------------------------------------------
(* flightaware_link on its own, both copies of pflib *)

InitLink ==
    /\ pc = "flightaware_link"
    /\ exc = "none"
    /\ pflib \in {"dist-packages", "python3.7"}
    /\ icaoArg \in SeqsUpTo(IdChars, MaxIdLen)
    /\ tailArg \in SeqsUpTo(IdChars, MaxIdLen)
    /\ env = [argc |-> 2, feedExists |-> TRUE, DISCORD_FEEDER_NAME |-> Empty]
    /\ feed = <<>>
    /\ planefile = <<>>
    /\ config = EmptyDict
    /\ planedb = EmptyDict
    /\ alerts = <<>>
    /\ idx = 0
    /\ handed = <<>>
    /\ result = Empty

call_flightaware_link ==
    /\ pc = "flightaware_link"
    /\ result' = IF pflib = "python3.7" THEN flightaware_link_py37(icaoArg, tailArg)
                 ELSE flightaware_link(icaoArg, tailArg)
    /\ pc' = "returned"
    /\ UNCHANGED <<exc, env, feed, planefile, pflib, config, planedb, alerts, idx,
                   handed, icaoArg, tailArg>>

NextLink == call_flightaware_link

SpecLink == InitLink /\ [][NextLink]_vars

----------------------------------------------------------------------------
(* Properties *)

\* the validity bar of the alert feed: at least 10 fields, no '#' first
IsValidRow(row) == Len(row) >= 10 /\ ~(Len(row[1]) > 0 /\ row[1][1] = "#")

ValidRows(rows) == SelectSeq(rows, IsValidRow)

AlertsLoaded ==
    \/ pc \in {"process_alerts", "done"}
    \/ pc = "raised" /\ exc = "SendError"

AllDelivered == \A k \in 1..Len(handed) : handed[k].outcome = "delivered"

\* C1: load_alerts returns, in order, one record per row that has at least
\* 10 fields and no '#' at the start of its first field, and no other record;
\* short rows, comment rows and blank lines raise nothing.
C1_LoadAlertsKeepsValidRows ==
    /\ AlertsLoaded =>
         LET valid == ValidRows(feed) IN
         /\ Len(alerts) = Len(valid)
         /\ \A k \in 1..Len(alerts) :
              /\ alerts[k].icao = strip(valid[k][1])
              /\ alerts[k].plane_desc = valid[k][4]
              /\ alerts[k].adsbx_url = valid[k][10]
              /\ alerts[k].squawk = (IF Len(valid[k]) >= 11 THEN valid[k][11] ELSE Empty)
    /\ (pc = "raised" /\ env.feedExists) => exc \in {"IndexError", "SendError"}

C1_Witness ==
    /\ pc = "process_alerts"
    /\ Len(feed) = 2
    /\ Len(alerts) = 1
    /\ Len(feed[1]) < 10

\* C2: a run that loaded its alerts ends (done, or by an exception) only after
\* every loaded alert was handed to pf.send, whatever the earlier calls of
\* pf.send did.
C2_SendFailureDoesNotStopRun ==
    (AlertsLoaded /\ pc \in {"done", "raised"}) => Len(handed) = Len(alerts)

\* C3: while every pf.send has delivered, the k-th call carries the embed of
\* the k-th valid row of the feed, and done is reached with exactly one call
\* per valid row.
C3_OnePayloadPerRowInFileOrder ==
    (AlertsLoaded /\ AllDelivered) =>
        LET valid == ValidRows(feed) IN
        /\ Len(handed) <= Len(valid)
        /\ \A k \in 1..Len(handed) :
             handed[k].embed = alert_embed(config, alert_of_row(valid[k]))
        /\ pc = "process_alerts" => Len(handed) = idx - 1
        /\ pc = "done" => Len(handed) = Len(valid)

C3_Witness ==
    /\ pc = "done"
    /\ AllDelivered
    /\ Len(handed) = 2
    /\ handed[1].embed.title # handed[2].embed.title

\* the nine candidate fields in their fixed order, each with the value that
\* decides whether it is shown
Candidates(cfg, plane) ==
    LET dbinfo == get_plane_info(plane.icao) IN
    << [name |-> "Feeder", under |-> Get(cfg, "DISCORD_FEEDER_NAME"),
        value |-> Get(cfg, "DISCORD_FEEDER_NAME")],
       [name |-> "ICAO", under |-> plane.icao, value |-> plane.icao],
       [name |-> "Tail Number", under |-> plane.tail_num,
        value |-> <<"[">> \o plane.tail_num \o <<"](">>
                    \o flightaware_link(plane.icao, plane.tail_num) \o <<")">>],
       [name |-> "Callsign", under |-> plane.callsign, value |-> plane.callsign],
       [name |-> "Category", under |-> Get(dbinfo, "category"),
        value |-> Get(dbinfo, "category")],
       [name |-> "Tag", under |-> Get(dbinfo, "tag1"), value |-> Get(dbinfo, "tag1")],
       [name |-> "Tag", under |-> Get(dbinfo, "tag2"), value |-> Get(dbinfo, "tag2")],
       [name |-> "Tag", under |-> Get(dbinfo, "tag3"), value |-> Get(dbinfo, "tag3")],
       [name |-> "Link", under |-> Get(dbinfo, "link"),
        value |-> <<"[Learn More](">> \o Get(dbinfo, "link") \o <<")">>] >>

Shown(cands) == [k \in 1..Len(cands) |-> [name |-> cands[k].name, value |-> cands[k].value]]

NonEmptyCandidate(c) == c.under # Empty

AlwaysOrNonEmptyCandidate(c) == c.name \in {"ICAO", "Tail Number"} \/ c.under # Empty

\* C4 as claimed: the field list of every embed is the candidates whose
\* underlying value is non-empty, in the fixed order.
C4_OnlyNonEmptyFields ==
    \A k \in 1..Len(handed) :
        handed[k].embed.fields
            = Shown(SelectSeq(Candidates(config, alerts[k]), NonEmptyCandidate))

\* C4 amended: ICAO and Tail Number are always in the field list, also with an
\* empty value; Feeder, Callsign, Category, the three Tags and Link are in it
\* exactly when their underlying value is non-empty; the order is fixed.
C4_FieldsInFixedOrder ==
    \A k \in 1..Len(handed) :
        handed[k].embed.fields
            = Shown(SelectSeq(Candidates(config, alerts[k]), AlwaysOrNonEmptyCandidate))

C4_Witness ==
    /\ Len(handed) = 1
    /\ alerts[1].tail_num = Empty
    /\ alerts[1].callsign = Empty
    /\ Get(get_plane_info(alerts[1].icao), "tag1") = Empty
    /\ Get(get_plane_info(alerts[1].icao), "tag2") # Empty
    /\ Get(get_plane_info(alerts[1].icao), "tag3") # Empty

TrackLine(plane) == <<"[Track on ADS-B Exchange](">> \o plane.adsbx_url \o <<")">>

\* C5: with an empty owner the description is the tracking-link line alone,
\* with nothing in front of it; with an owner it is the "Operated by" line, a
\* line break and the tracking-link line.
C5_DescriptionWithoutLeadingBreak ==
    \A k \in 1..Len(handed) :
        handed[k].embed.description
            = IF alerts[k].owner = Empty
              THEN TrackLine(alerts[k])
              ELSE <<"Operated by **">> \o alerts[k].owner \o <<"**", NL>>
                       \o TrackLine(alerts[k])

\* C9: the embed has the emergency title and pure red exactly when the squawk
\* is the string 7700, 7600 or 7500, and the plane-alert title and amber in
\* every other case; another squawk changes neither description nor fields.
C9_EmergencyIffExactSquawk ==
    \A k \in 1..Len(handed) :
        LET plane == alerts[k]
            embed == handed[k].embed
            exact == \/ plane.squawk = <<"7","7","0","0">>
                     \/ plane.squawk = <<"7","6","0","0">>
                     \/ plane.squawk = <<"7","5","0","0">>
        IN  /\ exact => /\ embed.title = <<"Air Emergency! ">> \o plane.tail_num
                                           \o <<" squawked ">> \o plane.squawk
                        /\ embed.color = 255 * 65536
            /\ ~exact => /\ embed.title = <<"Plane Alert - ">> \o plane.plane_desc
                         /\ embed.color = 242 * 65536 + 231 * 256 + 24
            /\ \A s \in Squawks :
                 LET other == alert_embed(config, [plane EXCEPT !.squawk = s]) IN
                 /\ other.description = embed.description
                 /\ other.fields = embed.fields

C9_Witness ==
    /\ Len(handed) = 1
    /\ alerts[1].squawk = <<"7","5","0","0">>
    /\ handed[1].embed.color = Red

\* C10: a feed that cannot be opened ends the run by an exception, with no
\* alert loaded, nothing handed to pf.send and done never reached; a feed that
\* opens and holds no valid row is loaded as the empty list, and the run goes
\* on to done with nothing handed to pf.send.
C10_MissingFeedRaises ==
    /\ ~env.feedExists =>
         /\ pc \notin {"process_alerts", "done"}
         /\ handed = <<>>
         /\ alerts = <<>>
         /\ pc = "raised" => exc \in {"IndexError", "FileNotFoundError"}
    /\ (pc = "load_alerts" /\ ~env.feedExists) => ENABLED main_load_alerts
    /\ (pc = "raised" /\ exc = "FileNotFoundError") => ~env.feedExists
    /\ (env.feedExists /\ ValidRows(feed) = <<>> /\ pc \in {"process_alerts", "done"}) =>
         /\ alerts = <<>>
         /\ handed = <<>>
         /\ exc = "none"
         /\ pc = "process_alerts" => (ENABLED main_done /\ ~ENABLED process_alerts)

C10_Witness ==
    /\ pc = "raised"
    /\ exc = "FileNotFoundError"
    /\ ~env.feedExists
    /\ planedb # EmptyDict

IsCommentRow(row) == Len(row) > 0 /\ Len(row[1]) > 0 /\ row[1][1] = "#"

\* C6: load_planefile raises on no file whose lines are comment lines, blank
\* lines and rows that lack only columns of index 4 and above.
C6_LoadPlanefileNeverFails ==
    (\A i \in 1..Len(planefile) :
        \/ planefile[i] = <<>>
        \/ IsCommentRow(planefile[i])
        \/ Len(planefile[i]) >= 4)
    => pc # "raised"

Column(row, n) == IF Len(row) >= n THEN row[n] ELSE Empty

PlaneFields ==
    {"tail_num", "owner", "type", "icao_type", "authority", "tag1", "tag2", "tag3",
     "category", "link"}

\* C7: after a load, get_plane_info(icao) is the entry of the last
\* non-comment row whose first column is icao, column by column; for an icao
\* in no such row every field reads as the empty string.
C7_LookupMatchesLastRow ==
    pc = "looked_up" =>
        LET at == {i \in 1..Len(planefile) :
                     ~IsCommentRow(planefile[i]) /\ Column(planefile[i], 1) = icaoArg
                       /\ planefile[i] # <<>>}
        IN  IF at = {}
            THEN \A f \in PlaneFields : Get(result, f) = Empty
            ELSE LET row == planefile[SetMax(at)] IN
                 /\ result.icao = icaoArg
                 /\ result.tail_num = Column(row, 2)
                 /\ result.owner = Column(row, 3)
                 /\ result.type = Column(row, 4)
                 /\ result.icao_type = Column(row, 5)
                 /\ result.authority = Column(row, 6)
                 /\ result.tag1 = Column(row, 7)
                 /\ result.tag2 = Column(row, 8)
                 /\ result.tag3 = Column(row, 9)
                 /\ result.category = Column(row, 10)
                 /\ result.link = Column(row, 11)

C7_Witness ==
    /\ pc = "looked_up"
    /\ Len(planefile) = 2
    /\ planefile[1] # planefile[2]
    /\ Len(planefile[1]) = 11
    /\ Len(planefile[2]) = 4
    /\ planefile[1][1] = icaoArg
    /\ planefile[2][1] = icaoArg

\* the identifier the link is to carry: no bracket, no surrounding whitespace
Cleaned(s) == strip(SelectSeq(s, LAMBDA c : c \notin {"[", "]"}))

\* C8: flightaware_link returns the FlightAware URL of the two identifiers
\* with every bracket and the whitespace around them removed; the link holds
\* no bracket.
C8_LinkHasCleanIdentifiers ==
    pc = "returned" =>
        /\ result = <<"https://flightaware.com/live/modes/">> \o Cleaned(icaoArg)
                        \o <<"/ident/">> \o Cleaned(tailArg) \o <<"/redirect">>
        /\ \A k \in 1..Len(result) : result[k] \notin {"[", "]"}

====
